---- MODULE Spec2Model ----
(***************************************************************************)
(* Model of the FileGenerator core: the row content generator, the size   *)
(* tracker, the delimited and spreadsheet writers, the generation service *)
(* and the construction of the request.                                   *)
(*                                                                         *)
(* A Python str is a sequence of one-character strings; bytes are counted *)
(* with Utf8Len.  An optional value is <<>> (None) or <<v>>.              *)
(***************************************************************************)
EXTENDS Integers, Sequences, FiniteSets, TLC

----------------------------------------------------------------------------
(* Bounds of the model.  The module constants of the source that are too   *)
(* large to enumerate are scaled down; the name of the source is kept.     *)

\* excel.py:20 MAX_EXCEL_ROWS = 1_048_576, scaled
MAX_EXCEL_ROWS == 5
\* delimited.py:12 PROGRESS_INTERVAL = 25_000, scaled
PROGRESS_INTERVAL == 2
\* excel.py:18 DEFAULT_PROGRESS_INTERVAL = 10_000, scaled
DEFAULT_PROGRESS_INTERVAL == 2
\* delimited.py:13 DEFAULT_FLUSH_BYTES = 4 MiB, scaled
DEFAULT_FLUSH_BYTES == 20
\* rows.py:19 digest_length = 48, scaled
DigestLength == 2
\* rows.py:38 len(hashlib.sha256().hexdigest()) = 64, scaled
DigestUnitLength == 3
\* largest byte target a request of the model asks a delimited writer for
MaxTargetBytes == 60
\* a run is followed for at most this many pulled rows
MaxRows == 12
\* the scripted probe of the model turns true after this many progress reports
FlipAfter == 3
\* io.DEFAULT_BUFFER_SIZE of the binary file handle (8192), scaled
IoBufferSize == 16

\* longest row handed to the encoder on its own, longest header list handed to
\* header_row on its own
MaxRowLen == 3
MaxHeaders == 3
\* rows pulled from each of two generator instances compared with each other
MaxPulled == 3
\* a size tracker used on its own records at most this many bytes
MaxRecorded == 9

\* excel.py:19
CELL_OVERHEAD_BYTES == 8

----------------------------------------------------------------------------
(* Strings *)

None == <<>>
Some(x) == <<x>>
Val(opt) == opt[1]

Min(a, b) == IF a <= b THEN a ELSE b
Max(a, b) == IF a >= b THEN a ELSE b

\* bytes of one character in UTF-8 (the model's alphabet has one non-ASCII letter)
Utf8Width(c) == IF c = "é" THEN 2 ELSE 1

RECURSIVE Utf8Len(_)
Utf8Len(s) == IF s = <<>> THEN 0 ELSE Utf8Width(Head(s)) + Utf8Len(Tail(s))

IsSpace(c) == c \in {" ", "\t", "\n"}

RECURSIVE LStrip(_)
LStrip(s) == IF s # <<>> /\ IsSpace(Head(s)) THEN LStrip(Tail(s)) ELSE s

RECURSIVE RStrip(_)
RStrip(s) ==
    IF s # <<>> /\ IsSpace(s[Len(s)]) THEN RStrip(SubSeq(s, 1, Len(s) - 1)) ELSE s

\* str.strip()
Strip(s) == RStrip(LStrip(s))

\* str.lower() on the letters the model uses
LowerChar(c) ==
    CASE c = "C" -> "c" [] c = "S" -> "s" [] c = "V" -> "v" [] c = "T" -> "t"
      [] c = "X" -> "x" [] c = "L" -> "l" [] c = "M" -> "m" [] OTHER -> c

Lower(s) == [i \in 1..Len(s) |-> LowerChar(s[i])]

\* str.lstrip(".")
RECURSIVE LStripDot(_)
LStripDot(s) == IF s # <<>> /\ Head(s) = "." THEN LStripDot(Tail(s)) ELSE s

RECURSIVE Join(_, _)
Join(row, delimiter) ==
    IF row = <<>> THEN <<>>
    ELSE IF Len(row) = 1 THEN row[1]
    ELSE row[1] \o delimiter \o Join(Tail(row), delimiter)

RECURSIVE Repeat(_, _)
Repeat(s, n) == IF n <= 0 THEN <<>> ELSE s \o Repeat(s, n - 1)

DigitChars == <<"0", "1", "2", "3", "4", "5", "6", "7", "8", "9">>

\* str(int) for a non-negative integer
RECURSIVE IntToStr(_)
IntToStr(n) ==
    IF n < 10 THEN <<DigitChars[n + 1]>>
    ELSE IntToStr(n \div 10) \o <<DigitChars[(n % 10) + 1]>>

----------------------------------------------------------------------------
(* utils/rows.py: DefaultRowContentGenerator *)

\* the filler_text every generator of the model is built with
FillerText == <<"D">>

\* the seed of the generator the writers of the model are handed
ModelSeed == <<"0">>

\* what secrets.token_hex(8) may return (two of the 2^64 tokens)
TokenHexValues == {<<"0", "f">>, <<"a", "3">>}

HexChars == <<"0", "1", "2", "3", "4", "5", "6", "7",
              "8", "9", "a", "b", "c", "d", "e", "f">>

CharIndex(c) == CHOOSE i \in 1..Len(HexChars) : HexChars[i] = c

RECURSIVE SeedCode(_)
\* the part of the row token f"{seed}-{row_index}" the seed contributes
SeedCode(seed) ==
    IF seed = <<>> THEN 0 ELSE (CharIndex(Head(seed)) - 1) + 3 * SeedCode(Tail(seed))

\* hashlib.sha256(row_token).hexdigest(): a fixed hexadecimal string per
\* (seed, row_index), of DigestUnitLength characters
Sha256Hex(seed, row_index) ==
    [k \in 1..DigestUnitLength |->
        HexChars[((SeedCode(seed) + row_index * (2 * k + 1) + k * k) % 16) + 1]]

\* __init__(filler_text, seed=seed): token is what secrets.token_hex(8) returns
\* when it is called
new_generator(filler_text, seed, token) ==
    [_filler_text |-> filler_text,
     _seed |-> IF seed # None /\ Val(seed) # <<>> THEN Val(seed) ELSE token,
     _digest_length |-> DigestLength]

\* the generator the writers of the model are handed
RowGenerator == new_generator(FillerText, Some(ModelSeed), <<>>)

ColumnPrefix == <<"C", "o", "l", "u", "m", "n", "_">>

\* mutant: the placeholder numbered from 0
header_row_zero_based(headers) ==
    [index \in 1..Len(headers) |->
        LET candidate == Strip(headers[index])
        IN  IF candidate # <<>> THEN candidate ELSE ColumnPrefix \o IntToStr(index - 1)]

header_row(headers) ==
    [index \in 1..Len(headers) |->
        LET candidate == Strip(headers[index])
        IN  IF candidate # <<>> THEN candidate ELSE ColumnPrefix \o IntToStr(index)]

_build_cell_value(self, header, fragment_pool, column_index) ==
    LET start == (column_index - 1) * self._digest_length
        end == start + self._digest_length
        fragment == SubSeq(fragment_pool, start + 1, Min(end, Len(fragment_pool)))
    IN  self._filler_text \o <<"-">> \o header \o <<"-">> \o fragment

\* TRUE when data_rows(headers) yields nothing
GeneratorExhausted(headers) == header_row(headers) = <<>>

\* the row_index-th row self.data_rows(headers) yields
data_rows(self, headers, row_index) ==
    LET normalized_headers == header_row(headers)
        minimum_length == self._digest_length * Len(normalized_headers) + DigestUnitLength
        row_digest == Sha256Hex(self._seed, row_index)
        repetitions == (minimum_length \div Len(row_digest)) + 2
        fragment_pool == Repeat(row_digest, repetitions)
    IN  [column_index \in 1..Len(normalized_headers) |->
            _build_cell_value(self, normalized_headers[column_index],
                              fragment_pool, column_index)]

\* the row_index-th row request.row_generator.data_rows(headers) yields
data_row(headers, row_index) == data_rows(RowGenerator, headers, row_index)

----------------------------------------------------------------------------
(* utils/size_helpers.py: SizeTracker, on (recorded bytes, target bytes) *)

\* mutant: the comparison inverted
should_continue_inverted(recorded, target_bytes) == recorded > target_bytes

should_continue(recorded, target_bytes) == recorded < target_bytes

\* mutant: a negative count is recorded like any other
SizeTracker_register_unchecked(recorded, byte_count) ==
    [raised |-> FALSE, recorded |-> recorded + byte_count]

\* SizeTracker.register(byte_count) on _bytes_recorded: whether it raises ValueError,
\* and _bytes_recorded after the call
SizeTracker_register(recorded, byte_count) ==
    IF byte_count < 0 THEN [raised |-> TRUE, recorded |-> recorded]
    ELSE [raised |-> FALSE, recorded |-> recorded + byte_count]

\* SizeTracker.reset()
SizeTracker_reset(recorded) == 0

\* floor(a / b) for b # 0
FloorDiv(a, b) ==
    IF b > 0 THEN (IF a >= 0 THEN a \div b ELSE -(((-a) + b - 1) \div b))
    ELSE (IF a >= 0 THEN -((a + (-b) - 1) \div (-b)) ELSE (-a) \div (-b))

\* mutant: the share still missing instead of the share done
percent_complete_remaining(recorded, target_bytes) ==
    IF target_bytes = 0 THEN 0
    ELSE Min(100, 100 - FloorDiv(recorded * 100, target_bytes))

\* percent_complete(), in whole percent (rounded down)
percent_complete(recorded, target_bytes) ==
    IF target_bytes = 0 THEN 0
    ELSE Min(100, FloorDiv(recorded * 100, target_bytes))

----------------------------------------------------------------------------
(* generators/delimited.py and generators/excel.py: pure helpers *)

T_csv == <<"c", "s", "v">>
T_tsv == <<"t", "s", "v">>
T_txt == <<"t", "x", "t">>
T_xlsx == <<"x", "l", "s", "x">>
T_xlsm == <<"x", "l", "s", "m">>
T_CSV == <<"C", "S", "V">>
T_pdf == <<"p", "d", "f">>

DelimitedSupportedTypes == {T_csv, T_tsv, T_txt}
ExcelSupportedTypes == {T_xlsx, T_xlsm}

_delimiter_for(file_type) == IF Lower(file_type) = T_csv THEN <<",">> ELSE <<"\t">>

\* mutant: every row is joined, the all-empty ones too
_encode_row_joined(row, delimiter) == Join(row, delimiter) \o <<"\n">>

\* the encoded row, as the characters whose UTF-8 bytes are written
_encode_row(row, delimiter) ==
    IF row = <<>> \/ (\A i \in 1..Len(row) : row[i] = <<>>) THEN <<"\n">>
    ELSE Join(row, delimiter) \o <<"\n">>

spacer_of(headers) == [i \in 1..Len(headers) |-> <<>>]

RECURSIVE _estimate_row_bytes(_)
_estimate_row_bytes(row) ==
    IF row = <<>> THEN 0
    ELSE Utf8Len(Head(row)) + CELL_OVERHEAD_BYTES + _estimate_row_bytes(Tail(row))

RECURSIVE TotalBytes(_)
\* bytes of a sequence of encoded rows
TotalBytes(rows) == IF rows = <<>> THEN 0 ELSE Utf8Len(Head(rows)) + TotalBytes(Tail(rows))

sheet_title(sheet_index) ==
    IF sheet_index = 1 THEN <<"D", "a", "t", "a">>
    ELSE <<"D", "a", "t", "a", " ">> \o IntToStr(sheet_index)

----------------------------------------------------------------------------
(* State *)

VARIABLES
    kwargs,         \* keyword arguments FileGenerationRequest(...) is called with
    entry,          \* who runs: "ui", "service", "worker", "delimited", "excel", ...
    pc,             \* position of the run
    exception,      \* the exception the run ended with, "" when none
    request,        \* None, or Some(the constructed request)
    cancel_flag,    \* what the cancellation probe returns now
    progress_log,   \* the progress reports delivered so far
    writer_calls,   \* the writers GenerationService.generate has invoked
    d,              \* locals of DelimitedFileGenerator.generate, and the file
    x,              \* locals of ExcelFileGenerator.generate, and the workbook
    unit,           \* a helper called on its own: its receiver, arguments, results
    worker          \* the GenerationWorker that runs the generation, if any

vars == <<kwargs, entry, pc, exception, request, cancel_flag, progress_log,
          writer_calls, d, x, unit, worker>>

Headers1 == << <<"a">> >>
Headers2 == << <<" ">>, <<"é">> >>
\* a header that holds the csv delimiter
Headers3 == << <<"a", ",", "b">> >>
HeaderChoices == {<<>>, Headers1, Headers2, Headers3}

\* byte target of the model that one spreadsheet sheet cannot hold
BigTargetBytes == 24 * MAX_EXCEL_ROWS

DelimitedTargets == {None, Some(-1), Some(0), Some(2), Some(5),
                     Some(MaxTargetBytes \div 2), Some(MaxTargetBytes)}
ExcelTargets == {None, Some(-1), Some(0), Some(5), Some(30), Some(BigTargetBytes)}
RowTargets == {None, Some(-1), Some(0), Some(1), Some(3),
               Some(MAX_EXCEL_ROWS - 1), Some(MAX_EXCEL_ROWS + 1)}

Req(suffix, ft, hs, sc, tr, probe, ign) ==
    [destination_suffix |-> suffix, file_type |-> ft, headers |-> hs,
     size_constraint |-> sc, target_rows |-> tr, cancel_requested |-> probe,
     ignore_excel_row_limit |-> ign]

Dot(ft) == <<".">> \o ft

\* requests a caller hands straight to a writer
DirectDelimitedKwargs ==
    {Req(Dot(ft), ft, hs, sc, tr, probe, "absent") :
        ft \in {T_csv, T_tsv}, hs \in HeaderChoices, sc \in DelimitedTargets,
        tr \in RowTargets, probe \in {"none", "flag", "scripted"}}

DirectExcelKwargs ==
    {Req(Dot(T_xlsx), T_xlsx, hs, sc, tr, probe, ign) :
        hs \in HeaderChoices, sc \in ExcelTargets, tr \in RowTargets,
        probe \in {"none", "flag", "scripted"}, ign \in {"absent", "true", "false"}}

\* requests handed to GenerationService.generate
ServiceKwargs ==
    {Req(suffix, ft, hs, sc, tr, "none", "absent") :
        suffix \in {<<>>, Dot(T_csv), Dot(T_CSV), Dot(T_xlsx), Dot(T_pdf)},
        ft \in {T_csv, T_CSV, T_tsv, T_txt, T_xlsx, T_xlsm, T_pdf},
        hs \in {<<>>, Headers1},
        sc \in {None, Some(-1), Some(0), Some(30)},
        tr \in {None, Some(2)}}

\* main_window.py _build_request: one terminator, checked inputs, both
\* collaborators of the request passed by keyword
_exceeds_excel_limit(file_type, row_count) ==
    Lower(file_type) \in {T_xlsx, T_xlsm} /\ row_count > MAX_EXCEL_ROWS - 2

UiKwargs ==
    {kw \in {Req(Dot(ft), ft, Headers1, t[1], t[2], "flag", ign) :
                ft \in {T_csv, T_xlsx},
                t \in {<<Some(30), None>>, <<None, Some(3)>>,
                       <<None, Some(MAX_EXCEL_ROWS + 1)>>},
                ign \in {"true", "false"}} :
        ~(/\ kw.target_rows # None
          /\ _exceeds_excel_limit(kw.file_type, Val(kw.target_rows))
          /\ kw.ignore_excel_row_limit = "false")}

\* file: None while the destination does not exist, else Some(the encoded rows
\* handed to the file handle); closed: the handle has been closed; polls: the
\* calls made to request.cancel_requested
DInit ==
    [tracker |-> None, buffer |-> <<>>, pending_bytes |-> 0, bytes_written |-> 0,
     data_rows_written |-> 0, row_count |-> 0, file |-> None, closed |-> FALSE,
     polls |-> 0]

XInit ==
    [tracker |-> None, estimated_bytes |-> 0, workbook |-> <<>>, sheet_row_count |-> 0,
     sheet_index |-> 0, excel_limit_enforced |-> FALSE, rows_written |-> 0,
     data_rows_written |-> 0, saved |-> FALSE, polls |-> 0]

\* no helper is called on its own during a generation run
NoUnit == [op |-> "none"]

\* the generation is run by its caller, not by a GenerationWorker
NoWorker == [running |-> FALSE]

Init ==
    /\ unit = NoUnit
    /\ worker = NoWorker
    /\ entry \in {"ui", "service", "delimited", "excel"}
    /\ kwargs \in CASE entry = "ui" -> UiKwargs
                    [] entry = "service" -> ServiceKwargs
                    [] entry = "delimited" -> DirectDelimitedKwargs
                    [] OTHER -> DirectExcelKwargs
    /\ pc = "construct"
    /\ exception = ""
    /\ request = None
    /\ cancel_flag = FALSE
    /\ progress_log = <<>>
    /\ writer_calls = <<>>
    /\ d = DInit
    /\ x = XInit

----------------------------------------------------------------------------
(* models.py: FileGenerationRequest(...) *)

\* the fields of the dataclass accept every keyword but ignore_excel_row_limit,
\* which models.py does not declare: passing it raises TypeError
dataclass_accepts(kw) == kw.ignore_excel_row_limit = "absent"

ConstructRequest ==
    /\ pc = "construct"
    /\ IF dataclass_accepts(kwargs)
       THEN /\ request' = Some(kwargs)
            /\ pc' = CASE entry \in {"ui", "service", "worker"} -> "s_generate"
                       [] entry = "delimited" -> "d_start"
                       [] OTHER -> "x_start"
            /\ UNCHANGED exception
       ELSE /\ pc' = "raised"
            /\ exception' = "TypeError"
            /\ UNCHANGED request
    /\ UNCHANGED <<worker, unit, kwargs, entry, cancel_flag, progress_log, writer_calls, d, x>>

rq == Val(request)

\* mutant: the probe is looked up but its answer is dropped
cancel_polled_dropped == rq.cancel_requested # "none" /\ cancel_flag /\ FALSE

\* mutant: the answer of the probe is negated
cancel_polled_negated == rq.cancel_requested # "none" /\ ~cancel_flag

\* request.cancel_requested and request.cancel_requested()
cancel_polled == rq.cancel_requested # "none" /\ cancel_flag

\* request.cancel_requested(), called only when the request has a probe
polled(loc) ==
    IF rq.cancel_requested # "none" THEN [loc EXCEPT !.polls = @ + 1] ELSE loc

\* getattr(request, "ignore_excel_row_limit", False)
ignore_excel_limit == rq.ignore_excel_row_limit = "true"

----------------------------------------------------------------------------
(* Progress reports *)

\* the scripted probe returns true from the FlipAfter-th report on
FlagAfter(new_log) ==
    cancel_flag \/ (rq.cancel_requested = "scripted" /\ Len(new_log) >= FlipAfter)

----------------------------------------------------------------------------
(* generators/delimited.py: DelimitedFileGenerator.generate *)

\* mutant: one row too many
row_target_reached_late(data_rows_written, rows_target) ==
    rows_target # None /\ data_rows_written > Val(rows_target)

\* mutant: the row target never ends a run
row_target_ignored(data_rows_written, rows_target) ==
    rows_target # None /\ data_rows_written >= Val(rows_target) /\ FALSE

\* line 96: target_rows is not None and data_rows_written >= target_rows
row_target_reached(data_rows_written, rows_target) ==
    rows_target # None /\ data_rows_written >= Val(rows_target)

has_tracker == rq.size_constraint # None
target_bytes == Val(rq.size_constraint)
target_rows == rq.target_rows

\* append_row(row), on the locals loc
append_row(loc, row) ==
    LET encoded == _encode_row(row, _delimiter_for(rq.file_type))
        n == Utf8Len(encoded)
    IN  [loc EXCEPT !.buffer = Append(@, encoded),
                    !.pending_bytes = @ + n,
                    !.bytes_written = @ + n,
                    !.tracker = IF @ = None THEN None ELSE Some(Val(@) + n)]

\* mutant: the buffer is emptied without being written
flush_discarding(loc) ==
    IF loc.buffer = <<>> THEN loc
    ELSE [loc EXCEPT !.buffer = <<>>,
                     !.pending_bytes = 0]

\* flush(file_handle), on the locals loc
flush(loc) ==
    IF loc.buffer = <<>> THEN loc
    ELSE [loc EXCEPT !.file = Some(Val(@) \o loc.buffer),
                     !.buffer = <<>>,
                     !.pending_bytes = 0]

\* destination.stat().st_size: everything once the handle is closed; before
\* that the rows still held in the handle's own buffer are not on disk
StatSize(loc) ==
    IF loc.file = None THEN 0
    ELSE IF loc.closed THEN TotalBytes(Val(loc.file))
    ELSE LET rows == Val(loc.file)
             first == IF rows = <<>> THEN 0 ELSE Utf8Len(rows[1])
         IN  IF TotalBytes(rows) <= IoBufferSize THEN 0 ELSE first

recorded_of(loc) == IF loc.tracker # None THEN Val(loc.tracker) ELSE loc.bytes_written

percent_of(tracker) ==
    IF tracker # None THEN percent_complete(Val(tracker), target_bytes) ELSE -1

\* mutant: the completion report carries the tracker's percentage
_emit_completion_tracked(loc) ==
    [message |-> "Completed writing", percent |-> percent_of(loc.tracker),
     detail |-> <<recorded_of(loc), StatSize(loc)>>]

\* _emit_completion(destination, tracker, bytes_written, progress)
_emit_completion(loc) ==
    [message |-> "Completed writing", percent |-> 100,
     detail |-> <<recorded_of(loc), StatSize(loc)>>]

DelimitedStart ==
    /\ pc = "d_start"
    /\ \E headers \in {header_row(rq.headers)} :
       \E written \in
            {LET opened == [d EXCEPT !.file = Some(<<>>),
                                    !.tracker = IF has_tracker THEN Some(0) ELSE None]
             IN  flush(append_row(append_row(opened, headers), spacer_of(headers)))} :
       LET log == Append(progress_log,
                         [message |-> "Headers written",
                          percent |-> percent_of(written.tracker), detail |-> <<>>])
       IN  /\ d' = written
           /\ progress_log' = log
           /\ cancel_flag' = FlagAfter(log)
    /\ pc' = "d_headers_written"
    /\ UNCHANGED <<worker, unit, kwargs, entry, exception, request, writer_calls, x>>

\* lines 66-73: the poll after the header stage and the two early returns
DelimitedAfterHeaders ==
    /\ pc = "d_headers_written"
    /\ IF cancel_polled
       THEN /\ pc' = "raised"
            /\ exception' = "GenerationCancelledError"
            /\ d' = [polled(d) EXCEPT !.closed = TRUE]
            /\ UNCHANGED <<progress_log, cancel_flag>>
       ELSE IF \/ (d.tracker # None /\ ~should_continue(Val(d.tracker), target_bytes))
               \/ (target_rows # None /\ Val(target_rows) <= 0)
       THEN LET log == Append(progress_log, _emit_completion(d))
            IN  /\ progress_log' = log
                /\ cancel_flag' = FlagAfter(log)
                /\ d' = [polled(d) EXCEPT !.closed = TRUE]
                /\ pc' = "done"
                /\ UNCHANGED exception
       ELSE /\ pc' = "d_next"
            /\ d' = polled(d)
            /\ UNCHANGED <<exception, progress_log, cancel_flag>>
    /\ UNCHANGED <<worker, unit, kwargs, entry, request, writer_calls, x>>

\* lines 75-79: the next row is pulled, then the probe is polled
DelimitedNextRow ==
    /\ pc = "d_next"
    /\ d.row_count < MaxRows
    /\ IF GeneratorExhausted(rq.headers)
       THEN /\ pc' = "d_finish"
            /\ UNCHANGED <<exception, d>>
       ELSE IF cancel_polled
       THEN /\ pc' = "raised"
            /\ exception' = "GenerationCancelledError"
            /\ d' = [polled(d) EXCEPT !.row_count = @ + 1, !.closed = TRUE]
       ELSE /\ pc' = "d_append"
            /\ d' = [polled(d) EXCEPT !.row_count = @ + 1]
            /\ UNCHANGED exception
    /\ UNCHANGED <<worker, unit, kwargs, entry, request, cancel_flag, progress_log, writer_calls, x>>

\* lines 80-97: the body of one iteration
DelimitedAppendRow ==
    /\ pc = "d_append"
    /\ \E row \in {data_row(rq.headers, d.row_count)} :
       \E appended \in {append_row(d, row)} :
       \E flushed \in
            {LET counted == [appended EXCEPT !.data_rows_written = @ + 1]
             IN  IF counted.pending_bytes >= DEFAULT_FLUSH_BYTES
                 THEN flush(counted) ELSE counted} :
       LET log == IF flushed.row_count % PROGRESS_INTERVAL = 0
                  THEN Append(progress_log,
                              [message |-> "Wrote",
                               percent |-> percent_of(flushed.tracker),
                               detail |-> <<flushed.row_count, recorded_of(flushed)>>])
                  ELSE progress_log
           stop == \/ (flushed.tracker # None
                       /\ ~should_continue(Val(flushed.tracker), target_bytes))
                   \/ row_target_reached(flushed.data_rows_written, target_rows)
       IN  /\ d' = flushed
           /\ progress_log' = log
           /\ cancel_flag' = FlagAfter(log)
           /\ pc' = IF stop THEN "d_finish" ELSE "d_next"
    /\ UNCHANGED <<worker, unit, kwargs, entry, exception, request, writer_calls, x>>

\* lines 99-101: the final flush, the close of the handle, the completion report
DelimitedFinish ==
    /\ pc = "d_finish"
    /\ LET closed == [flush(d) EXCEPT !.closed = TRUE]
           log == Append(progress_log, _emit_completion(closed))
       IN  /\ d' = closed
           /\ progress_log' = log
           /\ cancel_flag' = FlagAfter(log)
    /\ pc' = "done"
    /\ UNCHANGED <<worker, unit, kwargs, entry, exception, request, writer_calls, x>>

----------------------------------------------------------------------------
(* generators/excel.py: ExcelFileGenerator.generate *)

\* mutant: the limit is noticed one row late
sheet_full_late(sheet_row_count) == sheet_row_count > MAX_EXCEL_ROWS

\* mutant: the limit is never noticed
sheet_full_never(sheet_row_count) == sheet_row_count >= MAX_EXCEL_ROWS /\ FALSE

\* line 89: sheet_row_count >= MAX_EXCEL_ROWS
sheet_full(sheet_row_count) == sheet_row_count >= MAX_EXCEL_ROWS

\* if tracker: tracker.register(byte_count)
register(tracker, byte_count) ==
    IF tracker = None THEN None
    ELSE Some(SizeTracker_register(Val(tracker), byte_count).recorded)

\* mutant: a new sheet gets the header row only
start_new_sheet_headers_only(loc) ==
    LET header == header_row(rq.headers)
        header_bytes == _estimate_row_bytes(header)
    IN  [loc EXCEPT !.sheet_index = @ + 1,
                    !.workbook = Append(@, [title |-> sheet_title(loc.sheet_index + 1),
                                            rows |-> <<header>>]),
                    !.estimated_bytes = @ + header_bytes,
                    !.tracker = register(@, header_bytes),
                    !.sheet_row_count = 2]

\* start_new_sheet(), on the locals loc
start_new_sheet(loc) ==
    LET header == header_row(rq.headers)
        spacer == spacer_of(header)
        header_bytes == _estimate_row_bytes(header)
        spacer_bytes == _estimate_row_bytes(spacer)
    IN  [loc EXCEPT !.sheet_index = @ + 1,
                    !.workbook = Append(@, [title |-> sheet_title(loc.sheet_index + 1),
                                            rows |-> <<header, spacer>>]),
                    !.estimated_bytes = @ + header_bytes + spacer_bytes,
                    !.tracker = register(register(@, header_bytes), spacer_bytes),
                    !.sheet_row_count = 2]

\* sheet.append(row) on the active sheet
sheet_append(loc, row) ==
    [loc EXCEPT !.workbook[Len(loc.workbook)].rows = Append(@, row)]

ExcelStart ==
    /\ pc = "x_start"
    /\ LET created == [x EXCEPT !.tracker = IF has_tracker THEN Some(0) ELSE None]
           started == start_new_sheet(created)
           log == Append(progress_log,
                         [message |-> "Starting Excel generation",
                          percent |-> percent_of(started.tracker),
                          detail |-> <<started.sheet_index>>])
       IN  /\ x' = started
           /\ progress_log' = log
           /\ cancel_flag' = FlagAfter(log)
    /\ pc' = "x_next"
    /\ UNCHANGED <<worker, unit, kwargs, entry, exception, request, writer_calls, d>>

\* lines 84-88: the next row is pulled, then the probe is polled
ExcelNextRow ==
    /\ pc = "x_next"
    /\ x.rows_written < MaxRows
    /\ IF GeneratorExhausted(rq.headers)
       THEN /\ pc' = "x_finish"
            /\ UNCHANGED <<exception, x>>
       ELSE IF cancel_polled
       THEN /\ pc' = "raised"
            /\ exception' = "GenerationCancelledError"
            /\ x' = [polled(x) EXCEPT !.rows_written = @ + 1]
       ELSE /\ pc' = "x_body"
            /\ x' = [polled(x) EXCEPT !.rows_written = @ + 1]
            /\ UNCHANGED exception
    /\ UNCHANGED <<worker, unit, kwargs, entry, request, cancel_flag, progress_log, writer_calls, d>>

\* lines 89-123: the body of one iteration
ExcelBody ==
    /\ pc = "x_body"
    /\ IF sheet_full(x.sheet_row_count)
       THEN IF ignore_excel_limit
            THEN LET started == start_new_sheet(x)
                     log == Append(progress_log,
                                   [message |-> "Excel row limit reached; continuing",
                                    percent |-> percent_of(started.tracker),
                                    detail |-> <<started.sheet_index>>])
                 IN  /\ x' = started
                     /\ progress_log' = log
                     /\ cancel_flag' = FlagAfter(log)
                     /\ pc' = "x_next"
            ELSE LET log == Append(progress_log,
                                   [message |-> "Excel row limit reached; stopping early",
                                    percent |-> percent_of(x.tracker),
                                    detail |-> <<>>])
                 IN  /\ x' = [x EXCEPT !.excel_limit_enforced = TRUE]
                     /\ progress_log' = log
                     /\ cancel_flag' = FlagAfter(log)
                     /\ pc' = "x_finish"
       ELSE \E row_list \in {data_row(rq.headers, x.rows_written)} :
            \E appended \in
                {LET row_bytes == _estimate_row_bytes(row_list)
                 IN  [sheet_append(x, row_list) EXCEPT
                         !.estimated_bytes = @ + row_bytes,
                         !.tracker = register(@, row_bytes)]} :
            LET log == IF appended.rows_written % DEFAULT_PROGRESS_INTERVAL = 0
                       THEN Append(progress_log,
                                   [message |-> "Wrote",
                                    percent |-> percent_of(appended.tracker),
                                    detail |-> <<appended.rows_written,
                                                 IF appended.tracker # None
                                                 THEN Val(appended.tracker)
                                                 ELSE appended.estimated_bytes>>])
                       ELSE progress_log
                counted == [appended EXCEPT !.sheet_row_count = @ + 1,
                                            !.data_rows_written = @ + 1]
                stop == \/ (counted.tracker # None
                            /\ ~should_continue(Val(counted.tracker), target_bytes))
                        \/ (target_rows # None
                            /\ counted.data_rows_written >= Val(target_rows))
            IN  /\ x' = counted
                /\ progress_log' = log
                /\ cancel_flag' = FlagAfter(log)
                /\ pc' = IF stop THEN "x_finish" ELSE "x_next"
    /\ UNCHANGED <<worker, unit, kwargs, entry, exception, request, writer_calls, d>>

\* lines 125-145: the save, the warnings, the completion report
ExcelFinish ==
    /\ pc = "x_finish"
    /\ LET estimated_total == IF x.tracker # None THEN Val(x.tracker) ELSE x.estimated_bytes
           warn_size ==
               IF x.tracker # None /\ should_continue(Val(x.tracker), target_bytes)
               THEN << [message |-> "Requested size not reached",
                        percent |-> percent_of(x.tracker), detail |-> <<>>] >>
               ELSE <<>>
           warn_rows ==
               IF /\ target_rows # None
                  /\ x.data_rows_written < Val(target_rows)
                  /\ x.excel_limit_enforced
               THEN << [message |-> "Requested row count exceeds limit; output truncated",
                        percent |-> percent_of(x.tracker), detail |-> <<>>] >>
               ELSE <<>>
           log == progress_log \o warn_size \o warn_rows \o
                  << [message |-> "Excel file saved", percent |-> 100,
                      detail |-> <<x.data_rows_written, estimated_total>>] >>
       IN  /\ progress_log' = log
           /\ cancel_flag' = FlagAfter(log)
    /\ x' = [x EXCEPT !.saved = TRUE]
    /\ pc' = "done"
    /\ UNCHANGED <<worker, unit, kwargs, entry, exception, request, writer_calls, d>>

----------------------------------------------------------------------------
(* services/generation_service.py: GenerationService *)

\* generation_service.py imports the delimited writer as TabDelimitedFileGenerator,
\* a name delimited.py does not define: taken to be the delimited writer, with its
\* supported types
TabDelimitedSupportedTypes == DelimitedSupportedTypes

\* create_default_service(): the registry built from supported_types
registered(file_type) ==
    IF file_type \in ExcelSupportedTypes THEN Some("excel")
    ELSE IF file_type \in TabDelimitedSupportedTypes THEN Some("delimited")
    ELSE None

\* mutant: the file type is looked up as written
lookup_case_sensitive(file_type) == registered(file_type)

\* self._generators.get(request.file_type.lower())
lookup(file_type) == registered(Lower(file_type))

\* the outcome of the checks of generate, lines 24-35: "" when they pass
validate(req) ==
    IF req.size_constraint = None THEN "AttributeError"
    ELSE IF Val(req.size_constraint) <= 0 THEN "ValueError: target size"
    ELSE IF req.headers = <<>> THEN "ValueError: headers"
    ELSE LET destination_suffix == LStripDot(Lower(req.destination_suffix))
         IN  IF destination_suffix # <<>> /\ destination_suffix # Lower(req.file_type)
             THEN "ValueError: extension"
             ELSE ""

ServiceGenerate ==
    /\ pc = "s_generate"
    /\ LET outcome == validate(rq)
           generator == lookup(rq.file_type)
       IN  IF outcome # ""
           THEN /\ pc' = "raised"
                /\ exception' = outcome
                /\ UNCHANGED writer_calls
           ELSE IF generator = None
           THEN /\ pc' = "raised"
                /\ exception' = "ValueError: no generator"
                /\ UNCHANGED writer_calls
           ELSE /\ writer_calls' = Append(writer_calls,
                                          [writer |-> Val(generator), request |-> rq])
                /\ pc' = IF Val(generator) = "delimited" THEN "d_start" ELSE "x_start"
                /\ UNCHANGED exception
    /\ UNCHANGED <<worker, unit, kwargs, entry, request, cancel_flag, progress_log, d, x>>

----------------------------------------------------------------------------
(* ui/main_window.py: the cancel button *)

Running == pc \notin {"construct", "raised", "done"}

\* _on_cancel_clicked: self._cancel_flag = True, read by the request's probe
RequestCancel ==
    /\ Running
    /\ rq.cancel_requested = "flag"
    /\ ~cancel_flag
    /\ cancel_flag' = TRUE
    /\ UNCHANGED <<worker, unit, kwargs, entry, pc, exception, request, progress_log, writer_calls, d, x>>

----------------------------------------------------------------------------

Next ==
    \/ ConstructRequest
    \/ ServiceGenerate
    \/ DelimitedStart
    \/ DelimitedAfterHeaders
    \/ DelimitedNextRow
    \/ DelimitedAppendRow
    \/ DelimitedFinish
    \/ ExcelStart
    \/ ExcelNextRow
    \/ ExcelBody
    \/ ExcelFinish
    \/ RequestCancel

Spec == Init /\ [][Next]_vars

\* The runs of the two writers under fair scheduling: the thread that runs the
\* generation keeps running once started; the cancel button may never be
\* pressed.
FairDelimitedKwargs ==
    {Req(Dot(T_csv), T_csv, hs, sc, tr, probe, "absent") :
        hs \in {Headers1, Headers2},
        sc \in {None, Some(2), Some(MaxTargetBytes)},
        tr \in {None, Some(0), Some(MAX_EXCEL_ROWS + 1)},
        probe \in {"none", "flag", "scripted"}}

FairExcelKwargs ==
    {Req(Dot(T_xlsx), T_xlsx, hs, sc, tr, probe, "absent") :
        hs \in {Headers1, Headers2},
        sc \in {None, Some(5), Some(BigTargetBytes)},
        tr \in {None, Some(0), Some(MAX_EXCEL_ROWS + 1)},
        probe \in {"none", "flag", "scripted"}}

FairInit ==
    /\ unit = NoUnit
    /\ worker = NoWorker
    /\ entry \in {"delimited", "excel"}
    /\ kwargs \in IF entry = "delimited" THEN FairDelimitedKwargs ELSE FairExcelKwargs
    /\ pc = "construct"
    /\ exception = ""
    /\ request = None
    /\ cancel_flag = FALSE
    /\ progress_log = <<>>
    /\ writer_calls = <<>>
    /\ d = DInit
    /\ x = XInit

RunStep ==
    \/ ConstructRequest
    \/ DelimitedStart
    \/ DelimitedAfterHeaders
    \/ DelimitedNextRow
    \/ DelimitedAppendRow
    \/ DelimitedFinish
    \/ ExcelStart
    \/ ExcelNextRow
    \/ ExcelBody
    \/ ExcelFinish

FairNext ==
    \/ RunStep
    \/ RequestCancel

FairSpec == FairInit /\ [][FairNext]_vars /\ WF_vars(RunStep)

----------------------------------------------------------------------------
(* The helpers called on their own: _encode_row, header_row, two generator       *)
(* instances built from the same arguments, and a SizeTracker                    *)

\* the sequences over S of at most n entries
SeqsUpTo(S, n) == UNION {[1..k -> S] : k \in 0..n}

EncoderCells == {<<>>, <<"a">>, <<"é">>}
HeaderEntries == {<<>>, <<" ">>, <<"a">>, <<" ", "é", "\t">>}
SeedChoices == {None, Some(<<>>), Some(<<"5">>), Some(<<"c">>)}
ByteCounts == {-2, -1, 0, 1, 3}
TrackerTargets == {-1, 0, 3, 7}

EncoderUnits ==
    {[op |-> "_encode_row", row |-> row, delimiter |-> delimiter, result |-> None] :
        row \in SeqsUpTo(EncoderCells, MaxRowLen), delimiter \in {<<",">>, <<"\t">>}}

HeaderUnits ==
    {[op |-> "header_row", self |-> RowGenerator, headers |-> headers, results |-> <<>>] :
        headers \in SeqsUpTo(HeaderEntries, MaxHeaders)}

GeneratorUnits ==
    {[op |-> "data_rows", filler_text |-> FillerText, seed |-> seed, headers |-> headers,
      instances |-> <<>>] :
        seed \in SeedChoices, headers \in {<<>>, Headers1, Headers2}}

TrackerUnits ==
    {[op |-> "SizeTracker", target_bytes |-> target, _bytes_recorded |-> 0,
      call |-> <<"__init__", 0>>, raised |-> FALSE,
      should_continue |-> should_continue(0, target)] :
        target \in TrackerTargets}

UnitInit ==
    /\ unit \in EncoderUnits \cup HeaderUnits \cup GeneratorUnits \cup TrackerUnits
    /\ worker = NoWorker
    /\ entry = "unit"
    /\ kwargs = Req(Dot(T_csv), T_csv, Headers1, None, None, "none", "absent")
    /\ pc = "unit"
    /\ exception = ""
    /\ request = None
    /\ cancel_flag = FALSE
    /\ progress_log = <<>>
    /\ writer_calls = <<>>
    /\ d = DInit
    /\ x = XInit

run_vars == <<kwargs, entry, pc, exception, request, cancel_flag, progress_log,
              writer_calls, d, x, worker>>

\* _encode_row(row, delimiter)
EncodeRow ==
    /\ unit.op = "_encode_row"
    /\ unit.result = None
    /\ unit' = [unit EXCEPT !.result = Some(_encode_row(unit.row, unit.delimiter))]
    /\ UNCHANGED run_vars

\* header_row(headers), then header_row of what it returned
HeaderRow ==
    /\ unit.op = "header_row"
    /\ Len(unit.results) < 2
    /\ LET argument == IF unit.results = <<>> THEN unit.headers
                       ELSE unit.results[Len(unit.results)]
       IN  unit' = [unit EXCEPT !.results = Append(@, header_row(argument))]
    /\ UNCHANGED run_vars

\* DefaultRowContentGenerator(filler_text, seed=seed), a fresh instance and its
\* data_rows(headers) iterator
NewGenerator ==
    /\ unit.op = "data_rows"
    /\ Len(unit.instances) < 2
    /\ \E token \in TokenHexValues :
           unit' = [unit EXCEPT !.instances =
                       Append(@, [self |-> new_generator(unit.filler_text, unit.seed, token),
                                  rows |-> <<>>, exhausted |-> FALSE])]
    /\ UNCHANGED run_vars

\* next() on the iterator of one instance
NextRow ==
    /\ unit.op = "data_rows"
    /\ \E k \in 1..Len(unit.instances) :
           LET instance == unit.instances[k]
           IN  /\ ~instance.exhausted
               /\ Len(instance.rows) < MaxPulled
               /\ unit' = IF GeneratorExhausted(unit.headers)
                          THEN [unit EXCEPT !.instances[k].exhausted = TRUE]
                          ELSE [unit EXCEPT !.instances[k].rows =
                                   Append(@, data_rows(instance.self, unit.headers,
                                                       Len(instance.rows) + 1))]
    /\ UNCHANGED run_vars

\* tracker.register(byte_count)
Register ==
    /\ unit.op = "SizeTracker"
    /\ \E byte_count \in ByteCounts :
           LET outcome == SizeTracker_register(unit._bytes_recorded, byte_count)
           IN  /\ outcome.recorded <= MaxRecorded
               /\ unit' = [unit EXCEPT
                              !._bytes_recorded = outcome.recorded,
                              !.raised = outcome.raised,
                              !.call = <<"register", byte_count>>,
                              !.should_continue =
                                  should_continue(outcome.recorded, unit.target_bytes)]
    /\ UNCHANGED run_vars

\* tracker.reset()
Reset ==
    /\ unit.op = "SizeTracker"
    /\ LET recorded == SizeTracker_reset(unit._bytes_recorded)
       IN  unit' = [unit EXCEPT
                       !._bytes_recorded = recorded,
                       !.raised = FALSE,
                       !.call = <<"reset", 0>>,
                       !.should_continue = should_continue(recorded, unit.target_bytes)]
    /\ UNCHANGED run_vars

UnitNext ==
    \/ EncodeRow
    \/ HeaderRow
    \/ NewGenerator
    \/ NextRow
    \/ Register
    \/ Reset

UnitSpec == UnitInit /\ [][UnitNext]_vars

----------------------------------------------------------------------------
(* The spreadsheet writer handed a request that carries the allow-overflow    *)
(* flag.  The writer reads the flag with getattr (excel.py line 45); the       *)
(* dataclass of models.py does not declare it, so the object is one that adds  *)
(* the attribute to the fields of the request.                                 *)

\* row target that needs a third sheet when overflow is permitted
ThreeSheetRows == 2 * MAX_EXCEL_ROWS - 3

FlaggedExcelKwargs ==
    {Req(Dot(T_xlsx), T_xlsx, hs, t[1], t[2], probe, ign) :
        hs \in {<<>>, Headers1, Headers2},
        t \in {<<None, Some(MAX_EXCEL_ROWS - 2)>>, <<None, Some(MAX_EXCEL_ROWS - 1)>>,
               <<None, Some(MAX_EXCEL_ROWS + 1)>>, <<None, Some(ThreeSheetRows)>>,
               <<Some(30), None>>, <<Some(BigTargetBytes), None>>,
               <<Some(BigTargetBytes), Some(MAX_EXCEL_ROWS + 1)>>, <<None, None>>},
        probe \in {"none", "flag", "scripted"}, ign \in {"true", "false"}}

OverflowInit ==
    /\ unit = NoUnit
    /\ worker = NoWorker
    /\ entry = "excel_flagged"
    /\ kwargs \in FlaggedExcelKwargs
    /\ pc = "construct"
    /\ exception = ""
    /\ request = None
    /\ cancel_flag = FALSE
    /\ progress_log = <<>>
    /\ writer_calls = <<>>
    /\ d = DInit
    /\ x = XInit

\* the request object with the attribute ignore_excel_row_limit set
FlaggedRequest ==
    /\ pc = "construct"
    /\ entry = "excel_flagged"
    /\ request' = Some(kwargs)
    /\ pc' = "x_start"
    /\ UNCHANGED <<worker, unit, kwargs, entry, exception, cancel_flag, progress_log,
                   writer_calls, d, x>>

OverflowNext ==
    \/ FlaggedRequest
    \/ ExcelStart
    \/ ExcelNextRow
    \/ ExcelBody
    \/ ExcelFinish
    \/ RequestCancel

OverflowSpec == OverflowInit /\ [][OverflowNext]_vars

----------------------------------------------------------------------------
(* ui/workers.py: GenerationWorker.  The thread of the worker runs            *)
(* service.generate with the reporter as progress callback; request_cancel is  *)
(* called from the thread of the user interface.                               *)

WorkerKwargs ==
    {Req(Dot(ft), ft, hs, sc, None, probe, "absent") :
        ft \in {T_csv, T_xlsx, T_pdf}, hs \in {<<>>, Headers1},
        sc \in {None, Some(30), Some(MaxTargetBytes)}, probe \in {"none", "flag"}}

\* GenerationWorker(service, request).  handled: the calls of the reporter that
\* have returned or raised; checked: the reporter has read _cancel_requested
\* for the call in progress and is about to emit; events: the signals emitted
\* and the calls of request_cancel, in the order they happened
NewWorker ==
    [running |-> TRUE, _cancel_requested |-> FALSE, handled |-> 0,
     checked |-> FALSE, events |-> <<>>]

WorkerInit ==
    /\ unit = NoUnit
    /\ worker = NewWorker
    /\ entry = "worker"
    /\ kwargs \in WorkerKwargs
    /\ pc = "construct"
    /\ exception = ""
    /\ request = None
    /\ cancel_flag = FALSE
    /\ progress_log = <<>>
    /\ writer_calls = <<>>
    /\ d = DInit
    /\ x = XInit

\* a call of the reporter made by the writer has not returned yet
Pending == Len(progress_log) > worker.handled

Event(name, message, value) == [event |-> name, message |-> message, value |-> value]

\* run, line 39: a step of service.generate, made while no call of the
\* reporter is in progress
Generate ==
    /\ worker.running
    /\ ~Pending
    /\ \/ ServiceGenerate
       \/ DelimitedStart
       \/ DelimitedAfterHeaders
       \/ DelimitedNextRow
       \/ DelimitedAppendRow
       \/ DelimitedFinish
       \/ ExcelStart
       \/ ExcelNextRow
       \/ ExcelBody
       \/ ExcelFinish

\* reporter, lines 55-56: the flag is read; when it is set the call raises, and
\* the calls the writer would have made after it are not made
ReporterCheck ==
    /\ worker.running
    /\ Pending
    /\ ~worker.checked
    /\ IF worker._cancel_requested
       THEN /\ pc' = "raised"
            /\ exception' = "GenerationCancelledError"
            /\ progress_log' = SubSeq(progress_log, 1, worker.handled + 1)
            /\ worker' = [worker EXCEPT !.handled = @ + 1]
       ELSE /\ worker' = [worker EXCEPT !.checked = TRUE]
            /\ UNCHANGED <<pc, exception, progress_log>>
    /\ UNCHANGED <<unit, kwargs, entry, request, cancel_flag, writer_calls, d, x>>

\* reporter, lines 57-58: self.progress.emit(message, value)
ReporterEmit ==
    /\ worker.running
    /\ worker.checked
    /\ LET report == progress_log[worker.handled + 1]
       IN  worker' = [worker EXCEPT
                         !.checked = FALSE,
                         !.handled = @ + 1,
                         !.events = Append(@, Event("progress", report.message,
                                                    report.percent))]
    /\ UNCHANGED <<unit, kwargs, entry, pc, exception, request, cancel_flag,
                   progress_log, writer_calls, d, x>>

\* request_cancel(), lines 48-50, called while the worker runs
request_cancel ==
    /\ worker.running
    /\ pc # "construct"
    /\ ~worker._cancel_requested
    /\ worker' = [worker EXCEPT
                     !._cancel_requested = TRUE,
                     !.events = Append(@, Event("request_cancel", "", 0))]
    /\ UNCHANGED <<unit, kwargs, entry, pc, exception, request, cancel_flag,
                   progress_log, writer_calls, d, x>>

\* mutant: every run is reported as a success
terminal_signal_success(position, raised) == "finished_successfully"

\* run, lines 40-46: except GenerationCancelledError / except Exception / else
terminal_signal(position, raised) ==
    IF position = "done" THEN "finished_successfully"
    ELSE IF raised = "GenerationCancelledError" THEN "cancelled"
    ELSE "errored"

\* run, lines 40-46: the terminal signal
RunEnd ==
    /\ worker.running
    /\ pc \in {"done", "raised"}
    /\ ~Pending
    /\ LET signal == terminal_signal(pc, exception)
       IN  worker' = [worker EXCEPT
                         !.running = FALSE,
                         !.events = Append(@, Event(signal, exception, 0))]
    /\ UNCHANGED <<unit, kwargs, entry, pc, exception, request, cancel_flag,
                   progress_log, writer_calls, d, x>>

WorkerNext ==
    \/ ConstructRequest
    \/ Generate
    \/ ReporterCheck
    \/ ReporterEmit
    \/ request_cancel
    \/ RunEnd
    \/ RequestCancel

WorkerSpec == WorkerInit /\ [][WorkerNext]_vars

----------------------------------------------------------------------------
(* Properties *)

DelimitedDone == pc = "done" /\ d.file # None
ExcelDone == pc = "done" /\ x.sheet_index > 0
Cancelled == pc = "raised" /\ exception = "GenerationCancelledError"

FileRows == Val(d.file)
FileSize == TotalBytes(FileRows)
LastRowBytes == Utf8Len(FileRows[Len(FileRows)])

RECURSIVE CountNewlines(_)
CountNewlines(s) ==
    IF s = <<>> THEN 0
    ELSE (IF Head(s) = "\n" THEN 1 ELSE 0) + CountNewlines(Tail(s))

RECURSIVE FileLines(_)
\* the number of lines of a sequence of encoded rows
FileLines(rows) == IF rows = <<>> THEN 0 ELSE CountNewlines(Head(rows)) + FileLines(Tail(rows))

\* the file a delimited run of n data rows must hold
ExpectedFile(n) ==
    LET delimiter == _delimiter_for(rq.file_type)
        header == header_row(rq.headers)
    IN  <<_encode_row(header, delimiter), _encode_row(spacer_of(header), delimiter)>>
        \o [i \in 1..n |-> _encode_row(data_row(rq.headers, i), delimiter)]

\* C1 as stated: a completed delimited run with a size constraint (target_bytes > 0) and
\* non-empty headers leaves a file of at least target_bytes and at most target_bytes
\* plus the size of the last row written.  Read for the runs the byte target alone
\* governs (no target row count).
C1_Original ==
    (DelimitedDone /\ has_tracker /\ target_bytes > 0 /\ rq.headers # <<>>
        /\ target_rows = None)
        => (FileSize >= target_bytes /\ FileSize <= target_bytes + LastRowBytes)

\* C1 amended: a completed delimited run with a size constraint (target_bytes > 0), no
\* target row count and non-empty headers leaves a file of at least target_bytes; when a
\* data row was written the file without its last row is below target_bytes, otherwise
\* the file holds the header and the spacer only.
C1_ByteModeTermination ==
    (DelimitedDone /\ has_tracker /\ target_bytes > 0 /\ rq.headers # <<>>
        /\ target_rows = None)
        => /\ FileSize >= target_bytes
           /\ FileSize = Val(d.tracker)
           /\ IF d.data_rows_written >= 1
              THEN FileSize - LastRowBytes < target_bytes
              ELSE Len(FileRows) = 2

C1_Witness ==
    /\ DelimitedDone /\ has_tracker /\ target_bytes > 0 /\ rq.headers # <<>>
    /\ target_rows = None
    /\ d.data_rows_written >= 3
    /\ FileSize > target_bytes

\* C2 as stated: a completed delimited run with target_rows = N and no size constraint
\* holds exactly the header line, the spacer line and max(N, 0) data lines.
C2_Original ==
    (DelimitedDone /\ ~has_tracker /\ target_rows # None)
        => /\ FileLines(FileRows) = 2 + Max(Val(target_rows), 0)
           /\ FileRows = ExpectedFile(Max(Val(target_rows), 0))

\* C2 amended: a completed delimited run with target_rows = N, no size constraint and
\* non-empty headers holds exactly the header line, the spacer line and max(N, 0) data
\* lines; with empty headers it holds the header and spacer lines only.
C2_RowModeTermination ==
    (DelimitedDone /\ ~has_tracker /\ target_rows # None)
        => LET n == IF rq.headers = <<>> THEN 0 ELSE Max(Val(target_rows), 0)
           IN  /\ FileLines(FileRows) = 2 + n
               /\ FileRows = ExpectedFile(n)
               /\ d.data_rows_written = n

C2_Witness ==
    /\ DelimitedDone /\ ~has_tracker /\ target_rows # None
    /\ rq.headers # <<>>
    /\ Val(target_rows) >= 3
    /\ FileLines(FileRows) = Val(target_rows) + 2

\* the bytes the size tracker of the running writer has recorded
Recorded ==
    IF d.tracker # None THEN Val(d.tracker)
    ELSE IF x.tracker # None THEN Val(x.tracker) ELSE 0

DataRowsWritten == IF x.sheet_index > 0 THEN x.data_rows_written ELSE d.data_rows_written

ProbeTrue == rq.cancel_requested # "none" /\ cancel_flag

\* the stopping condition of a byte-mode run has not been met
StopUnmet ==
    /\ should_continue(Recorded, target_bytes)
    /\ ~(target_rows # None /\ DataRowsWritten >= Max(Val(target_rows), 0))

IsCompletion(report) == report.message \in {"Completed writing", "Excel file saved"}

NoCompletion(log) == \A i \in 1..Len(log) : ~IsCompletion(log[i])

\* C3 as stated: in a byte-mode run, once the probe returns true at any moment before
\* the stopping condition is met, the run does not go on to complete: it fails with
\* GenerationCancelled, with fewer than target_bytes written and no completion report.
\* Read for requests with headers, whose generator always has a next row.
C3_Original ==
    [][(Running /\ has_tracker /\ rq.headers # <<>> /\ ProbeTrue /\ StopUnmet)
        => /\ pc' \notin {"d_finish", "x_finish", "done"}
           /\ (pc' = "raised"
                 => /\ exception' = "GenerationCancelledError"
                    /\ Recorded' < target_bytes
                    /\ NoCompletion(progress_log'))]_vars

\* the writer is about to poll the probe: after the header stage (delimited), or at the
\* top of an iteration for which the generator has a row
AtPoll ==
    \/ pc = "d_headers_written"
    \/ (pc = "d_next" /\ ~GeneratorExhausted(rq.headers) /\ d.row_count < MaxRows)
    \/ (pc = "x_next" /\ ~GeneratorExhausted(rq.headers) /\ x.rows_written < MaxRows)

\* C3 amended: in a byte-mode run, when the probe returns true at a poll of the writer
\* (after the header stage of the delimited writer, at the top of every data-row
\* iteration of both) made while the recorded bytes are below target_bytes, the run fails
\* with GenerationCancelled at that poll, with fewer than target_bytes written, no further
\* report and no completion report; a probe that turns true after the last poll does not
\* stop the run.
C3_CancellationOutcome ==
    [][(AtPoll /\ has_tracker /\ ProbeTrue /\ should_continue(Recorded, target_bytes))
        => /\ pc' = "raised"
           /\ exception' = "GenerationCancelledError"
           /\ Recorded' < target_bytes
           /\ progress_log' = progress_log
           /\ NoCompletion(progress_log')]_vars

\* the probe turned true with the third report, the next poll ended the run
C3_Witness ==
    /\ Cancelled /\ has_tracker
    /\ rq.cancel_requested = "scripted"
    /\ Len(progress_log) = FlipAfter
    /\ DataRowsWritten >= 2
    /\ Recorded < target_bytes

LastReport == progress_log[Len(progress_log)]

Truncation == "Requested row count exceeds limit; output truncated"

\* a row-mode spreadsheet run whose row target one sheet cannot hold
OverLimitRowMode(req) ==
    /\ req.size_constraint = None
    /\ req.target_rows # None
    /\ Val(req.target_rows) > MAX_EXCEL_ROWS - 2

\* C4 as stated: a completed spreadsheet run in row mode with target_rows above
\* MAX_EXCEL_ROWS - 2 and overflow disabled has written exactly MAX_EXCEL_ROWS - 2 data
\* rows in a single sheet, and its truncation warning precedes the completion report.
C4_Original ==
    (ExcelDone /\ OverLimitRowMode(rq) /\ ~ignore_excel_limit)
        => /\ x.data_rows_written = MAX_EXCEL_ROWS - 2
           /\ Len(x.workbook) = 1
           /\ Len(x.workbook[1].rows) = MAX_EXCEL_ROWS
           /\ Len(progress_log) >= 2
           /\ progress_log[Len(progress_log) - 1].message = Truncation
           /\ IsCompletion(LastReport)

\* C4 amended: the same for requests with non-empty headers; with empty headers the
\* generator yields no row, no data row is written and no truncation warning is emitted.
C4_StructuralLimit ==
    (ExcelDone /\ OverLimitRowMode(rq) /\ ~ignore_excel_limit)
        => IF rq.headers # <<>>
           THEN /\ x.data_rows_written = MAX_EXCEL_ROWS - 2
                /\ Len(x.workbook) = 1
                /\ Len(x.workbook[1].rows) = MAX_EXCEL_ROWS
                /\ x.excel_limit_enforced
                /\ Len(progress_log) >= 3
                /\ progress_log[Len(progress_log) - 2].message
                       = "Excel row limit reached; stopping early"
                /\ progress_log[Len(progress_log) - 1].message = Truncation
                /\ IsCompletion(LastReport)
           ELSE /\ x.data_rows_written = 0
                /\ \A i \in 1..Len(progress_log) : progress_log[i].message # Truncation

C4_Witness ==
    /\ ExcelDone /\ OverLimitRowMode(rq) /\ ~ignore_excel_limit
    /\ rq.headers # <<>>
    /\ x.data_rows_written = MAX_EXCEL_ROWS - 2
    /\ progress_log[Len(progress_log) - 1].message = Truncation

RECURSIVE SheetDataRows(_)
\* the data rows of a workbook: every sheet's rows but its first two
SheetDataRows(workbook) ==
    IF workbook = <<>> THEN 0
    ELSE (Len(Head(workbook).rows) - 2) + SheetDataRows(Tail(workbook))

\* C5 as stated: a spreadsheet run in row mode with target_rows above MAX_EXCEL_ROWS - 2
\* whose request is built with the allow-overflow flag enabled ends with two sheets,
\* 'Data' full and 'Data 2' starting with header and spacer, and target_rows data rows.
C5_Claim ==
    (/\ entry \in {"excel", "ui"}
     /\ kwargs.ignore_excel_row_limit = "true"
     /\ OverLimitRowMode(kwargs)
     /\ Val(kwargs.target_rows) <= 2 * (MAX_EXCEL_ROWS - 2)
     /\ kwargs.headers # <<>>
     /\ pc \in {"done", "raised"}
     /\ exception # "GenerationCancelledError")
        => /\ pc = "done"
           /\ Len(x.workbook) = 2
           /\ x.workbook[1].title = sheet_title(1)
           /\ x.workbook[2].title = sheet_title(2)
           /\ Len(x.workbook[1].rows) = MAX_EXCEL_ROWS
           /\ SubSeq(x.workbook[2].rows, 1, 2)
                  = <<header_row(kwargs.headers), spacer_of(kwargs.headers)>>
           /\ SheetDataRows(x.workbook) = Val(kwargs.target_rows)

ServiceReturned == entry = "service" /\ pc \notin {"construct", "s_generate"}

HasExtension(req) == LStripDot(req.destination_suffix) # <<>>

ExtensionDiffers(req) ==
    HasExtension(req) /\ Lower(LStripDot(req.destination_suffix)) # Lower(req.file_type)

InvalidArgument == {"ValueError: target size", "ValueError: headers", "ValueError: extension"}

\* C6 as stated: GenerationService.generate fails with InvalidArgument, invoking no
\* writer and leaving the destination alone, whenever the size constraint is present
\* with target_bytes <= 0, or headers is empty, or the extension differs from the type.
C6_Claim ==
    (/\ ServiceReturned
     /\ \/ (rq.size_constraint # None /\ Val(rq.size_constraint) <= 0)
        \/ rq.headers = <<>>
        \/ ExtensionDiffers(rq))
        => /\ pc = "raised"
           /\ exception \in InvalidArgument
           /\ writer_calls = <<>>
           /\ d.file = None /\ x.sheet_index = 0

\* C7 as stated: a request with no size constraint, a positive target_rows, non-empty
\* headers, a matching extension and a registered file type passes validation and is
\* handed to the writer.
C7_Claim ==
    (/\ ServiceReturned
     /\ rq.size_constraint = None
     /\ rq.target_rows # None /\ Val(rq.target_rows) > 0
     /\ rq.headers # <<>>
     /\ ~ExtensionDiffers(rq)
     /\ Lower(rq.file_type) \in DelimitedSupportedTypes \cup ExcelSupportedTypes)
        => /\ exception = ""
           /\ Len(writer_calls) = 1

\* C8: for every request that passes the validation of generate, the writer registered
\* for the lower-cased file type (csv, tsv, txt: delimited; xlsx, xlsm: spreadsheet) is
\* invoked exactly once with that request and the run goes on in that writer; with no
\* writer registered the call fails with the "no generator" ValueError and no writer runs.
C8_Dispatch ==
    (ServiceReturned /\ validate(rq) = "")
        => LET t == Lower(rq.file_type)
           IN  IF t \in {T_csv, T_tsv, T_txt}
               THEN /\ writer_calls = <<[writer |-> "delimited", request |-> rq]>>
                    /\ (pc = "d_start" \/ d.file # None) /\ x.sheet_index = 0
               ELSE IF t \in {T_xlsx, T_xlsm}
               THEN /\ writer_calls = <<[writer |-> "excel", request |-> rq]>>
                    /\ (pc = "x_start" \/ x.sheet_index > 0) /\ d.file = None
               ELSE /\ pc = "raised" /\ exception = "ValueError: no generator"
                    /\ writer_calls = <<>>
                    /\ d.file = None /\ x.sheet_index = 0

C8_Witness ==
    /\ ServiceReturned /\ validate(rq) = ""
    /\ rq.file_type = T_CSV
    /\ pc = "done"
    /\ writer_calls = <<[writer |-> "delimited", request |-> rq]>>

WriterRan == d.file # None \/ x.sheet_index > 0

FirstMessage == IF d.file # None THEN "Headers written" ELSE "Starting Excel generation"

\* C9 as stated: a writer run that returns normally has a 100% report as its last report
\* and 'Headers written' / 'Starting' as its first; a run that fails with
\* GenerationCancelled has emitted no report with percent 100.  The cancelled runs are
\* read for requests with headers.
C9_Original ==
    /\ (pc = "done" /\ WriterRan)
          => (LastReport.percent = 100 /\ progress_log[1].message = FirstMessage)
    /\ (Cancelled /\ WriterRan /\ rq.headers # <<>>)
          => \A i \in 1..Len(progress_log) : progress_log[i].percent # 100

\* C9 amended: a writer run that returns normally has the 100% completion report as its
\* last report and 'Headers written' / 'Starting' as its first; a run that fails with
\* GenerationCancelled has emitted no completion report, and a report of it carries
\* percent 100 only when it is the first report of a byte-mode run whose header and
\* spacer alone reach target_bytes.
C9_CompletionSignalling ==
    /\ (pc = "done" /\ WriterRan)
          => /\ LastReport.percent = 100 /\ IsCompletion(LastReport)
             /\ progress_log[1].message = FirstMessage
             /\ \A i \in 1..(Len(progress_log) - 1) : ~IsCompletion(progress_log[i])
    /\ (Cancelled /\ WriterRan)
          => /\ NoCompletion(progress_log)
             /\ progress_log[1].message = FirstMessage
             /\ \A i \in 1..Len(progress_log) :
                    progress_log[i].percent = 100
                        => /\ i = 1 /\ Len(progress_log) = 1
                           /\ has_tracker /\ DataRowsWritten = 0
                           /\ ~should_continue(Recorded, target_bytes)

C9_Witness ==
    /\ pc = "done" /\ WriterRan
    /\ Len(progress_log) >= 4
    /\ LastReport.percent = 100
    /\ progress_log[1].message = FirstMessage

\* C10: within one run the percent values of successive reports never decrease; in a
\* run without size constraint every report carries -1 until the final 100.
C10_ProgressMonotone ==
    /\ \A i \in 1..(Len(progress_log) - 1) :
           progress_log[i].percent <= progress_log[i + 1].percent
    /\ (progress_log # <<>> /\ ~has_tracker)
          => \A i \in 1..Len(progress_log) :
                 \/ progress_log[i].percent = -1
                 \/ (i = Len(progress_log) /\ pc = "done" /\ progress_log[i].percent = 100)

\* a byte-mode spreadsheet run that ends at the sheet limit below its target, its
\* percent rising report after report
C10_Witness ==
    /\ ExcelDone /\ has_tracker
    /\ Len(progress_log) >= 5
    /\ \E i \in 1..Len(progress_log) : progress_log[i].message = "Requested size not reached"
    /\ progress_log[1].percent < progress_log[2].percent
    /\ progress_log[2].percent < progress_log[Len(progress_log) - 1].percent

----------------------------------------------------------------------------
(* Reading a delimited file back *)

RECURSIVE Concat(_)
\* the text of a file: its encoded rows one after the other
Concat(rows) == IF rows = <<>> THEN <<>> ELSE Head(rows) \o Concat(Tail(rows))

FileText == Concat(FileRows)

\* the index of the first c in s, 0 when there is none
FirstIndex(s, c) ==
    IF \E i \in 1..Len(s) : s[i] = c
    THEN CHOOSE i \in 1..Len(s) : s[i] = c /\ \A j \in 1..(i - 1) : s[j] # c
    ELSE 0

RECURSIVE ReadLine(_, _)
\* the k-th handle.readline().rstrip("\n") of a text: None past its last line
ReadLine(text, k) ==
    LET i == FirstIndex(text, "\n")
    IN  IF text = <<>> THEN None
        ELSE IF k = 1 THEN Some(IF i = 0 THEN text ELSE SubSeq(text, 1, i - 1))
        ELSE IF i = 0 THEN None
        ELSE ReadLine(SubSeq(text, i + 1, Len(text)), k - 1)

RECURSIVE Split(_, _)
\* str.split(sep) for a one-character separator
Split(s, sep) ==
    LET i == FirstIndex(s, sep)
    IN  IF i = 0 THEN <<s>>
        ELSE <<SubSeq(s, 1, i - 1)>> \o Split(SubSeq(s, i + 1, Len(s)), sep)

Delimiter == _delimiter_for(rq.file_type)

\* the delimiter characters of a line
DelimiterCount(line) == Cardinality({i \in 1..Len(line) : line[i] = Delimiter[1]})

\* C11 as stated: the second line of a delimited file is the spacer row of N empty
\* fields joined by the delimiter (N the number of headers): it holds N - 1 delimiter
\* characters before its newline.  Read for requests with at least one header.
C11_Claim ==
    (d.file # None /\ Len(FileRows) >= 2 /\ rq.headers # <<>>)
        => /\ ReadLine(FileText, 2) = Some(Join(spacer_of(rq.headers), Delimiter))
           /\ DelimiterCount(Val(ReadLine(FileText, 2))) = Len(rq.headers) - 1

\* C13 as stated: for every requested header sequence, the first line of the delimited
\* output, split on the format's delimiter, is exactly header_row(requested headers).
\* Read for requests with at least one header.
C13_Claim ==
    (d.file # None /\ Len(FileRows) >= 1 /\ rq.headers # <<>>)
        => /\ ReadLine(FileText, 1) # None
           /\ Split(Val(ReadLine(FileText, 1)), Delimiter[1]) = header_row(rq.headers)

\* the bytes the tracker records for the last data row written
LastDataRowBytes ==
    IF x.sheet_index > 0
    THEN _estimate_row_bytes(data_row(rq.headers, x.data_rows_written))
    ELSE Utf8Len(_encode_row(data_row(rq.headers, d.data_rows_written), Delimiter))

\* the bytes the tracker records for the header row and the spacer row
HeaderStageBytes ==
    LET header == header_row(rq.headers)
    IN  IF x.sheet_index > 0
        THEN _estimate_row_bytes(header) + _estimate_row_bytes(spacer_of(header))
        ELSE Utf8Len(_encode_row(header, Delimiter))
                 + Utf8Len(_encode_row(spacer_of(header), Delimiter))

\* C18 as stated: in a byte-mode run of either writer no row is written once
\* should_continue() is false: the recorded bytes minus the last data row written are
\* below target_bytes, and when header and spacer alone reach the target no data row is
\* written.  Read for target_bytes > 0 and requests with headers.
C18_Claim ==
    (WriterRan /\ has_tracker /\ target_bytes > 0 /\ rq.headers # <<>>)
        => /\ DataRowsWritten >= 1 => Recorded - LastDataRowBytes < target_bytes
           /\ HeaderStageBytes >= target_bytes => DataRowsWritten = 0

\* a finished run of a request that carries both terminators and has headers
BothTerminatorsDone ==
    /\ pc = "done" /\ WriterRan
    /\ has_tracker /\ target_rows # None
    /\ rq.headers # <<>>

DestinationWritten == d.file # None \/ x.saved

IsPrefix(s, t) == Len(s) <= Len(t) /\ SubSeq(t, 1, Len(s)) = s

\* C20 as stated: when a run of either writer fails with GenerationCancelled, the
\* destination file exists, begins with the header row and the spacer row and holds
\* only whole rows in generation order.  Read for requests whose terminators are
\* positive.
C20_Original ==
    (/\ Cancelled /\ WriterRan
     /\ has_tracker => target_bytes > 0
     /\ target_rows # None => Val(target_rows) >= 1)
        => /\ DestinationWritten
           /\ d.file # None
                 => \E k \in 0..d.data_rows_written : FileRows = ExpectedFile(k)

\* C20 amended: when a delimited run fails with GenerationCancelled, the destination
\* file exists, is closed and holds the header row, the spacer row and the first k data
\* rows of the generator, whole and in generation order, k being the data rows flushed
\* before the poll; the data rows still in the writer's buffer (less than the flush
\* threshold) are not written.  What the writer has handed to the file is never removed
\* or shortened.  A cancelled spreadsheet run leaves no file: the workbook is saved only
\* after the loop.
C20_PartialOutput ==
    /\ [](Cancelled /\ WriterRan
            => IF d.file # None
               THEN /\ d.closed
                    /\ \E k \in 0..d.data_rows_written :
                           /\ FileRows = ExpectedFile(k)
                           /\ Len(d.buffer) = d.data_rows_written - k
                    /\ d.pending_bytes < DEFAULT_FLUSH_BYTES
               ELSE ~x.saved /\ x.sheet_index > 0)
    /\ [][d.file # None => (d.file' # None /\ IsPrefix(Val(d.file), Val(d.file')))]_vars

\* a delimited run cancelled with three data rows in the file and a fourth in the buffer
C20_Witness ==
    /\ Cancelled /\ d.file # None
    /\ d.data_rows_written = 4
    /\ FileRows = ExpectedFile(3)
    /\ Len(d.buffer) = 1

----------------------------------------------------------------------------
(* Properties of the helpers called on their own *)

\* the cells of a row with the delimiter between every two of them
Interleave(row, delimiter) ==
    [i \in 1..(2 * Len(row) - 1) |-> IF i % 2 = 1 THEN row[(i + 1) \div 2] ELSE delimiter]

IsTrimOf(t, s) ==
    \E a \in 0..Len(s) :
        /\ a + Len(t) <= Len(s)
        /\ SubSeq(s, a + 1, a + Len(t)) = t
        /\ \A i \in 1..a : IsSpace(s[i])
        /\ \A i \in (a + Len(t) + 1)..Len(s) : IsSpace(s[i])
        /\ t # <<>> => (~IsSpace(t[1]) /\ ~IsSpace(t[Len(t)]))

\* out is headers with every entry trimmed and the empty ones replaced by Column_<i>
Sanitized(out, headers) ==
    /\ Len(out) = Len(headers)
    /\ \A i \in 1..Len(headers) :
           IF IsTrimOf(<<>>, headers[i])
           THEN out[i] = ColumnPrefix \o IntToStr(i)
           ELSE IsTrimOf(out[i], headers[i])

\* C14: header_row returns a sequence as long as its input whose entry i is the trimmed
\* input entry when that is non-empty and 'Column_i' otherwise; the call changes neither
\* the generator nor its argument; applied to its own output it returns that output.
C14_HeaderSanitation ==
    [][(unit.op = "header_row" /\ unit' # unit)
        => /\ unit'.self = unit.self
           /\ unit'.headers = unit.headers
           /\ Sanitized(unit'.results[1], unit.headers)
           /\ Len(unit'.results) = 2 => unit'.results[2] = unit'.results[1]]_vars

\* header_row applied twice to a list with a blank entry in second place
C14_Witness ==
    /\ unit.op = "header_row"
    /\ unit.headers = << <<"a">>, <<" ">>, <<" ", "é", "\t">> >>
    /\ Len(unit.results) = 2
    /\ unit.results[2] = << <<"a">>, ColumnPrefix \o <<"2">>, <<"é">> >>

\* C15 as stated: for every fixed seed, filler token and header set, two fresh generator
\* instances built with that seed yield the same rows, element for element, for the
\* first K rows; every row has as many cells as there are headers.
C15_Claim ==
    (unit.op = "data_rows" /\ unit.seed # None /\ Len(unit.instances) = 2)
        => LET first == unit.instances[1].rows
               second == unit.instances[2].rows
           IN  /\ \A i \in 1..Min(Len(first), Len(second)) : first[i] = second[i]
               /\ \A i \in 1..Len(first) : Len(first[i]) = Len(unit.headers)
               /\ \A i \in 1..Len(second) : Len(second[i]) = Len(unit.headers)

\* C17: register(n) with n < 0 raises ValueError and leaves the recorded bytes alone;
\* register(n) with n >= 0 adds exactly n; no register call lowers the recorded bytes and
\* only reset() brings them back to 0; should_continue() is true exactly when the
\* recorded bytes are below target_bytes.
C17_TrackerAccounting ==
    [][(unit.op = "SizeTracker" /\ unit' # unit)
        => LET before == unit._bytes_recorded
               after == unit'._bytes_recorded
               name == unit'.call[1]
               n == unit'.call[2]
           IN  /\ (name = "register" /\ n < 0) => (unit'.raised /\ after = before)
               /\ (name = "register" /\ n >= 0) => (~unit'.raised /\ after = before + n)
               /\ name = "register" => after >= before
               /\ after < before => (name = "reset" /\ after = 0)
               /\ name = "reset" => after = 0
               /\ unit'.should_continue <=> (after < unit.target_bytes)
               /\ unit'.target_bytes = unit.target_bytes]_vars

\* a negative count refused after 4 bytes were recorded
C17_Witness ==
    /\ unit.op = "SizeTracker"
    /\ unit.call = <<"register", -1>>
    /\ unit.raised
    /\ unit._bytes_recorded = 4
    /\ unit.target_bytes = 7
    /\ unit.should_continue

----------------------------------------------------------------------------
(* Properties of the spreadsheet writer with the allow-overflow flag *)

SheetRows(i) == x.workbook[i].rows

SheetWellFormed(i) ==
    /\ Len(SheetRows(i)) >= 2
    /\ Len(SheetRows(i)) <= MAX_EXCEL_ROWS
    /\ SheetRows(i)[1] = header_row(rq.headers)
    /\ SheetRows(i)[2] = spacer_of(header_row(rq.headers))
    /\ x.workbook[i].title = sheet_title(i)
    /\ (i < Len(x.workbook) => Len(SheetRows(i)) = MAX_EXCEL_ROWS)

\* C21: in every state of a spreadsheet run, with or without overflow, every
\* sheet begins with the header row and the spacer row and holds between 2 and
\* MAX_EXCEL_ROWS rows; the sheets are titled Data, Data 2, Data 3, ... in the
\* order of their creation; every sheet but the active one holds exactly
\* MAX_EXCEL_ROWS rows, and the writer's row count of the active sheet is the
\* number of rows the sheet holds.
C21_SheetCeiling ==
    request # None =>
        /\ Len(x.workbook) = x.sheet_index
        /\ \A i \in 1..Len(x.workbook) : SheetWellFormed(i)
        /\ (x.sheet_index > 0 => x.sheet_row_count = Len(SheetRows(x.sheet_index)))

C21_Witness ==
    /\ request # None
    /\ ignore_excel_limit
    /\ Len(x.workbook) = 3
    /\ Len(SheetRows(2)) = MAX_EXCEL_ROWS
    /\ Len(SheetRows(3)) > 2

RECURSIVE SheetsDataRows(_)
SheetsDataRows(i) ==
    IF i = 0 THEN <<>>
    ELSE SheetsDataRows(i - 1) \o SubSeq(SheetRows(i), 3, Len(SheetRows(i)))

\* the data rows of the workbook, read in sheet order
AllDataRows == SheetsDataRows(Len(x.workbook))

\* C22: in a spreadsheet run with overflow permitted, the data rows written
\* across all sheets, read in sheet order, are rows 1..K of the generator's
\* sequence: the k-th data row of the workbook is the k-th row the generator
\* yields, so the row pulled when the sheet limit was detected is the first data
\* row of the new sheet.
C22_Claim ==
    (request # None /\ ignore_excel_limit) =>
        \A k \in 1..Len(AllDataRows) : AllDataRows[k] = data_row(rq.headers, k)

----------------------------------------------------------------------------
(* Properties of the spreadsheet writer in row mode *)

ExcelRowMode ==
    /\ request # None
    /\ x.sheet_index > 0
    /\ rq.size_constraint = None
    /\ rq.target_rows # None
    /\ rq.headers # <<>>

\* C23: in a row-mode run of the spreadsheet writer, for every target_rows
\* (zero and negative values included), the number of data rows written never
\* exceeds max(target_rows, 0), and a run that completes with
\* 0 <= target_rows <= MAX_EXCEL_ROWS - 2 has written exactly target_rows rows.
C23_Claim ==
    ExcelRowMode =>
        /\ x.data_rows_written <= Max(Val(rq.target_rows), 0)
        /\ (/\ pc = "done"
            /\ Val(rq.target_rows) >= 0
            /\ Val(rq.target_rows) <= MAX_EXCEL_ROWS - 2)
           => x.data_rows_written = Val(rq.target_rows)

----------------------------------------------------------------------------
(* Properties of the polls of the cancellation probe *)

HasProbe == request # None /\ rq.cancel_requested # "none"

\* what a poll that returns true, and the body of an iteration, may do
PollConsequences ==
    /\ (AtPoll /\ ProbeTrue)
        => /\ pc' = "raised"
           /\ exception' = "GenerationCancelledError"
           /\ DataRowsWritten' = DataRowsWritten
           /\ Recorded' = Recorded
           /\ progress_log' = progress_log
           /\ d'.file = d.file
           /\ x'.workbook = x.workbook
    /\ (pc \in {"d_append", "x_body"} /\ pc' # pc)
        => /\ DataRowsWritten' <= DataRowsWritten + 1
           /\ pc' \in {"d_next", "x_next", "d_finish", "x_finish"}

\* C24 as stated: in both writers the probe is polled once after the header
\* stage and once at the top of every data-row iteration, so that when the
\* k-th row pulled is about to be written the probe has been called k + 1
\* times; a poll that returns true ends the run with no further row written,
\* registered or reported, and an iteration writes at most one row before the
\* next poll.
C24_Original ==
    /\ [](HasProbe => /\ (pc = "d_append" => d.polls = d.row_count + 1)
                      /\ (pc = "x_body" => x.polls = x.rows_written + 1))
    /\ [][PollConsequences]_vars

\* C24 amended: the delimited writer polls the probe once after the header
\* stage and once at the top of every data-row iteration (k + 1 calls when the
\* k-th row pulled is written); the spreadsheet writer polls it only at the top
\* of every iteration (k calls when the k-th row pulled is handled, none if the
\* generator yields no row).  In both writers a poll that returns true ends the
\* run with GenerationCancelled and no further row is written, registered or
\* reported, and an iteration writes at most one row before the next poll.
C24_PollingOrder ==
    /\ [](HasProbe =>
            /\ (d.file # None
                  => d.polls = IF pc \in {"d_start", "d_headers_written"}
                               THEN 0 ELSE d.row_count + 1)
            /\ x.polls = x.rows_written)
    /\ [][PollConsequences]_vars

\* a spreadsheet run cancelled at the poll of its third iteration, after the
\* probe turned true while the second row was being written
C24_Witness ==
    /\ Cancelled
    /\ x.sheet_index > 0
    /\ x.data_rows_written = 2
    /\ x.polls = 3
    /\ x.rows_written = 3

----------------------------------------------------------------------------
(* Properties of the buffer of the delimited writer *)

\* the buffer and the counters of a delimited run agree
BufferAccounting ==
    /\ d.bytes_written = TotalBytes(Val(d.file)) + d.pending_bytes
    /\ d.pending_bytes = TotalBytes(d.buffer)
    /\ (pc \in {"d_next", "d_finish"} => d.pending_bytes < DEFAULT_FLUSH_BYTES)

\* the completion report carries the recorded byte count and the size of the file
CompletionSizesAgree ==
    /\ d.buffer = <<>>
    /\ IsCompletion(LastReport)
    /\ LastReport.detail[1] = recorded_of(d)
    /\ LastReport.detail[2] = TotalBytes(Val(d.file))
    /\ LastReport.detail[1] = LastReport.detail[2]

\* C25: at every point of a delimited run, bytes_written is the bytes handed to
\* the file plus pending_bytes, pending_bytes is the total length of the
\* buffered rows and is below the flush threshold at the end of every loop
\* iteration; when the run completes, the buffer is empty and the two numbers
\* of the completion report, the recorded byte count and the actual size of
\* the file, are equal.  Read for requests with headers and a positive byte
\* target.
C25_Claim ==
    (d.file # None /\ rq.headers # <<>> /\ has_tracker /\ target_bytes > 0) =>
        /\ BufferAccounting
        /\ (DelimitedDone => CompletionSizesAgree)

----------------------------------------------------------------------------
(* Termination *)

WriterStarted == pc \in {"d_start", "x_start"}

HasTerminator == (has_tracker /\ target_bytes > 0) \/ target_rows # None

NoTerminator == ~has_tracker /\ target_rows = None

\* the run ended with the final 100% report or with GenerationCancelled
RunEnded ==
    \/ (pc = "done" /\ IsCompletion(LastReport) /\ LastReport.percent = 100)
    \/ Cancelled

\* a run of a writer, with headers, whose probe has not returned true
Unstopped ==
    /\ request # None
    /\ rq.headers # <<>>
    /\ ~cancel_flag

\* C26 as stated: every run of either writer with headers and at least one
\* terminator eventually ends, with the final 100% report or with
\* GenerationCancelled; a run of either writer with neither terminator and a
\* probe that never returns true never ends.
C26_Original ==
    /\ (WriterStarted /\ rq.headers # <<>> /\ HasTerminator) ~> RunEnded
    /\ []((Unstopped /\ NoTerminator /\ (d.file # None \/ x.sheet_index > 0))
            => pc \notin {"done", "raised"})

\* C26 amended: every run of either writer with headers and at least one
\* terminator eventually ends, with the final 100% report or with
\* GenerationCancelled; a run of the delimited writer with neither terminator
\* and a probe that never returns true never ends, while such a run of the
\* spreadsheet writer without overflow ends with the final 100% report when the
\* sheet limit is hit.
C26_Termination ==
    /\ (WriterStarted /\ rq.headers # <<>> /\ HasTerminator) ~> RunEnded
    /\ []((Unstopped /\ NoTerminator /\ d.file # None) => pc \notin {"done", "raised"})
    /\ (pc = "x_start" /\ rq.headers # <<>> /\ NoTerminator /\ ~ignore_excel_limit)
         ~> RunEnded

\* a spreadsheet run with neither terminator that ended at the sheet limit
C26_Witness ==
    /\ ExcelDone
    /\ rq.headers # <<>>
    /\ NoTerminator
    /\ ~cancel_flag
    /\ x.excel_limit_enforced
    /\ RunEnded

----------------------------------------------------------------------------
(* Properties of the signals of GenerationWorker *)

Events == worker.events

IsTerminal(e) == e.event \in {"finished_successfully", "cancelled", "errored"}

IsProgress(e) == e.event = "progress"

IsFinalProgress(e) == IsProgress(e) /\ IsCompletion(e) /\ e.value = 100

\* the position of the call of request_cancel among the events, 0 when none
CancelIndex ==
    IF \E i \in 1..Len(Events) : Events[i].event = "request_cancel"
    THEN CHOOSE i \in 1..Len(Events) : Events[i].event = "request_cancel"
    ELSE 0

RunOver == ~worker.running

LastEvent == Events[Len(Events)]

\* at most one terminal signal, nothing after it, and exactly one once run is over
OneTerminalSignal ==
    /\ \A i, j \in 1..Len(Events) : (i < j) => ~IsTerminal(Events[i])
    /\ RunOver => (Len(Events) > 0 /\ IsTerminal(LastEvent))

----------------------------------------------------------------------------
(* Properties of the byte estimate of the spreadsheet writer *)

RECURSIVE SumRowEstimates(_)
SumRowEstimates(rows) ==
    IF rows = <<>> THEN 0
    ELSE _estimate_row_bytes(Head(rows)) + SumRowEstimates(Tail(rows))

RECURSIVE SheetsEstimate(_, _)
SheetsEstimate(workbook, i) ==
    IF i = 0 THEN 0
    ELSE SheetsEstimate(workbook, i - 1) + SumRowEstimates(workbook[i].rows)

\* the sum of the per-row estimates of every row appended to any sheet
WorkbookEstimate(loc) == SheetsEstimate(loc.workbook, Len(loc.workbook))

RECURSIVE SheetsDataRowCount(_, _)
SheetsDataRowCount(workbook, i) ==
    IF i = 0 THEN 0
    ELSE SheetsDataRowCount(workbook, i - 1) + (Len(workbook[i].rows) - 2)

\* the data rows appended to any sheet
DataRowCount(loc) == SheetsDataRowCount(loc.workbook, Len(loc.workbook))

EstimateIsSum ==
    (request # None /\ x.sheet_index > 0) =>
        /\ x.estimated_bytes = WorkbookEstimate(x)
        /\ (x.tracker # None => Val(x.tracker) = x.estimated_bytes)
        /\ _estimate_row_bytes(<< <<>> >>) = CELL_OVERHEAD_BYTES

\* a periodic report made in this step states the data rows written so far
PeriodicReportCounts ==
    (/\ Len(progress_log') = Len(progress_log) + 1
     /\ progress_log'[Len(progress_log')].message = "Wrote"
     /\ x'.sheet_index > 0)
        => progress_log'[Len(progress_log')].detail[1] = DataRowCount(x')

\* C28: at every point of a spreadsheet run the estimated byte total, and in
\* byte mode the tracker's recorded bytes, equal to it, is the sum over every
\* row appended to any sheet, header and spacer rows included, of the per-row
\* estimate (UTF-8 length plus 8 for each cell, so 8 for an empty spacer cell);
\* every periodic progress report states a data-row count equal to the number
\* of data rows written so far.
C28_Claim == []EstimateIsSum /\ [][PeriodicReportCounts]_vars

============================================================================
